---- MODULE Spec2Model ----
(***************************************************************************)
(* Model of the four automation scripts of the repository:                 *)
(*   repl_runner.py, validate.py, build.py and llm-repl.py.                *)
(* Every behaviour is one run of one script: Init picks the script, its    *)
(* command line and the state of the file system; the actions are the      *)
(* steps of the script's main function, with the subprocesses it starts    *)
(* as nondeterministic environment outcomes.                               *)
(***************************************************************************)
EXTENDS Integers, Sequences, FiniteSets, TLC

VARIABLES
    prog,          \* which script this run executes
    pc,            \* position of the script
    exit_status,   \* status handed to sys.exit, Running while not exited
    rr_args,       \* repl_runner.py: argparse namespace
    b_args,        \* build.py: argparse namespace
    sys_argv,      \* llm-repl.py: sys.argv[1:]
    exe_exists,    \* build/llm-repl.exe exists
    build_dir,     \* the build directory: [kind, content]
    launched,      \* command lines handed to subprocess.run, in order
    returncodes,   \* exit codes of the subprocesses that terminated, in order
    dir_at_launch, \* kind of build_dir at each subprocess.run, in order
    options,       \* llm-repl.py: arguments before the first "--"
    app_args,      \* llm-repl.py: arguments after the first "--"
    config,        \* llm-repl.py: BuildConfig
    executed,      \* llm-repl.py: command objects whose execute() was called
    success,       \* value returned by execute() / run_repl()
    log,           \* messages reported with Logger.error / print
    results,       \* validate.py: list of (step, success)
    report         \* validate.py: summary report, NoReport until printed

vars == <<prog, pc, exit_status, rr_args, b_args, sys_argv, exe_exists,
          build_dir, launched, returncodes, dir_at_launch, options, app_args,
          config, executed, success, log, results, report>>

(***************************************************************************)
(* Bounds                                                                  *)
(***************************************************************************)
MaxExit == 2     \* subprocess exit codes range over 0..MaxExit
MaxArgs == 3     \* llm-repl.py is given at most MaxArgs arguments after the command

ExitCodes == 0..MaxExit
Running == -1

(***************************************************************************)
(* Python values                                                           *)
(***************************************************************************)
\* An optional value is <<>> (None) or <<v>>.
None == <<>>
Some(v) == <<v>>
Opt(S) == {None} \cup {Some(v) : v \in S}

\* bool(s) of a str, bool(n) of an int
TruthyStr(s) == s # ""
TruthyInt(n) == n # 0

\* sys.exit(v): an int is the status, and bool is an int (True is 1, False is 0)
SysExitBool(b) == IF b THEN 1 ELSE 0

\* floats are kept in tenths
float(tok) == CASE tok = "0" -> 0
                [] tok = "0.7" -> 7
                [] tok = "1" -> 10
StrFloat(f) == CASE f = 0 -> "0.0"
                 [] f = 7 -> "0.7"
                 [] f = 10 -> "1.0"
StrInt(n) == CASE n = 0 -> "0"
               [] n = 2 -> "2"
               [] n = 100 -> "100"

ExePath == "build/llm-repl.exe"

NoReport == [printed |-> FALSE, passed |-> 0, total |-> 0]
NoConfig == [build_type |-> "", jobs |-> 0, verbose |-> FALSE]
NoArgsB == [clean |-> FALSE, debug |-> FALSE, jobs |-> None]

(***************************************************************************)
(* repl_runner.py                                                          *)
(***************************************************************************)
\* The command lines argparse accepts, as typed.
RRTyped ==
    [config : Opt({"", "c.yaml"}),
     provider : Opt({"groq"}),
     model : Opt({"", "m"}),
     api_key : Opt({"", "sk"}),
     temperature : Opt({"0", "0.7"}),
     max_tokens : Opt({"0", "100"}),
     verbose : BOOLEAN,
     help_repl : BOOLEAN]

IntTok(tok) == CASE tok = "0" -> 0
                 [] tok = "2" -> 2
                 [] tok = "100" -> 100

\* parser.parse_args(): type=float and type=int convert, the rest is kept
RRParse(t) ==
    [config |-> t.config, provider |-> t.provider, model |-> t.model,
     api_key |-> t.api_key,
     temperature |-> IF t.temperature = None THEN None
                     ELSE Some(float(t.temperature[1])),
     max_tokens |-> IF t.max_tokens = None THEN None
                    ELSE Some(IntTok(t.max_tokens[1])),
     verbose |-> t.verbose, help_repl |-> t.help_repl]

\* main, "Build command arguments"
ReplArgs(args) ==
       (IF args.config # None /\ TruthyStr(args.config[1])
           THEN <<"--config", args.config[1]>> ELSE <<>>)
    \o (IF args.provider # None /\ TruthyStr(args.provider[1])
           THEN <<"--provider", args.provider[1]>> ELSE <<>>)
    \o (IF args.model # None /\ TruthyStr(args.model[1])
           THEN <<"--model", args.model[1]>> ELSE <<>>)
    \o (IF args.api_key # None /\ TruthyStr(args.api_key[1])
           THEN <<"--api-key", args.api_key[1]>> ELSE <<>>)
    \o (IF args.temperature # None
           THEN <<"--temperature", StrFloat(args.temperature[1])>> ELSE <<>>)
    \o (IF args.max_tokens # None /\ TruthyInt(args.max_tokens[1])
           THEN <<"--max-tokens", StrInt(args.max_tokens[1])>> ELSE <<>>)
    \o (IF args.verbose THEN <<"--verbose">> ELSE <<>>)

\* the argument list main hands to run_repl (None is passed as <<>>:
\* run_repl extends cmd only "if args")
RunReplArgs(args) == IF args.help_repl THEN <<"--help">> ELSE ReplArgs(args)

\* what main returns for the value of run_repl: the --help-repl branch
\* returns the bool itself, the other branch maps it to 0 / 1
RRMainReturn(args, ok) ==
    IF args.help_repl THEN SysExitBool(ok)
    ELSE IF ~ok THEN 1 ELSE 0

\* main up to subprocess.run in run_repl, executable present
RR_launch ==
    /\ prog = "repl_runner" /\ pc = "start"
    /\ exe_exists
    /\ launched' = Append(launched, <<ExePath>> \o RunReplArgs(rr_args))
    /\ dir_at_launch' = Append(dir_at_launch, build_dir)
    /\ pc' = "child"
    /\ UNCHANGED <<prog, exit_status, rr_args, b_args, sys_argv, exe_exists,
                   build_dir, returncodes, options, app_args, config,
                   executed, success, log, results, report>>

\* main, check_executable fails: run_repl returns False
RR_no_executable ==
    /\ prog = "repl_runner" /\ pc = "start"
    /\ ~exe_exists
    /\ success' = Some(FALSE)
    /\ log' = Append(log, "Executable not found")
    /\ exit_status' = RRMainReturn(rr_args, FALSE)
    /\ pc' = "done"
    /\ UNCHANGED <<prog, rr_args, b_args, sys_argv, exe_exists, build_dir,
                   launched, returncodes, dir_at_launch, options, app_args,
                   config, executed, results, report>>

\* subprocess.run returns: the executable terminated with exit code c
RR_process_exit ==
    /\ prog = "repl_runner" /\ pc = "child"
    /\ \E c \in ExitCodes :
         /\ returncodes' = Append(returncodes, c)
         /\ success' = Some(c = 0)
         /\ exit_status' = RRMainReturn(rr_args, c = 0)
    /\ pc' = "done"
    /\ UNCHANGED <<prog, rr_args, b_args, sys_argv, exe_exists, build_dir,
                   launched, dir_at_launch, options, app_args, config,
                   executed, log, results, report>>

\* subprocess.run raises KeyboardInterrupt: run_repl returns True
RR_process_interrupt ==
    /\ prog = "repl_runner" /\ pc = "child"
    /\ success' = Some(TRUE)
    /\ log' = Append(log, "REPL interrupted by user")
    /\ exit_status' = RRMainReturn(rr_args, TRUE)
    /\ pc' = "done"
    /\ UNCHANGED <<prog, rr_args, b_args, sys_argv, exe_exists, build_dir,
                   launched, returncodes, dir_at_launch, options, app_args,
                   config, executed, results, report>>

\* subprocess.run raises another exception: run_repl returns False
RR_process_exception ==
    /\ prog = "repl_runner" /\ pc = "child"
    /\ success' = Some(FALSE)
    /\ log' = Append(log, "Error running REPL")
    /\ exit_status' = RRMainReturn(rr_args, FALSE)
    /\ pc' = "done"
    /\ UNCHANGED <<prog, rr_args, b_args, sys_argv, exe_exists, build_dir,
                   launched, returncodes, dir_at_launch, options, app_args,
                   config, executed, results, report>>

(***************************************************************************)
(* validate.py                                                             *)
(***************************************************************************)
validation_steps ==
    << [name |-> "Project Status Check",
        command |-> <<"python", "llm-repl.py", "status">>],
       [name |-> "Clean Build Environment",
        command |-> <<"python", "llm-repl.py", "clean">>],
       [name |-> "Full Release Build",
        command |-> <<"python", "llm-repl.py", "build", "--release">>],
       [name |-> "Comprehensive Testing",
        command |-> <<"python", "llm-repl.py", "test">>],
       [name |-> "Code Formatting Check",
        command |-> <<"python", "llm-repl.py", "format">>],
       [name |-> "Application Version Test",
        command |-> <<"python", "llm-repl.py", "run", "--", "--version">>],
       [name |-> "Application Help Test",
        command |-> <<"python", "llm-repl.py", "run", "--", "--help">> ] >>

\* sys.argv[1:] of llm-repl.py when started by step i: the command
\* without "python" and the script name
StepArgv(i) == SubSeq(validation_steps[i].command, 3,
                      Len(validation_steps[i].command))

\* the step the for loop is at: one result has been appended per finished step
CurrentStep == Len(results) + 1

\* for loop body up to subprocess.run: the step's subprocess is started
V_invoke ==
    /\ prog = "validate" /\ pc = "start"
    /\ CurrentStep <= Len(validation_steps)
    /\ launched' = Append(launched, validation_steps[CurrentStep].command)
    /\ dir_at_launch' = Append(dir_at_launch, build_dir)
    /\ pc' = "child"
    /\ UNCHANGED <<prog, exit_status, rr_args, b_args, sys_argv, exe_exists,
                   build_dir, returncodes, options, app_args, config,
                   executed, success, log, results, report>>

\* subprocess.run cannot start the subprocess: the OSError is no
\* CalledProcessError, leaves run_validation and reaches "except Exception"
V_launch_fails ==
    /\ prog = "validate" /\ pc = "start"
    /\ CurrentStep <= Len(validation_steps)
    /\ launched' = Append(launched, validation_steps[CurrentStep].command)
    /\ dir_at_launch' = Append(dir_at_launch, build_dir)
    /\ log' = Append(log, "Validation script failed")
    /\ exit_status' = 1
    /\ pc' = "done"
    /\ UNCHANGED <<prog, rr_args, b_args, sys_argv, exe_exists, build_dir,
                   returncodes, options, app_args, config, executed, success,
                   results, report>>

\* subprocess.run(check=True): the step passes iff its exit code is 0,
\* any other code raises CalledProcessError
StepPasses(c) == c = 0

\* V_step_exit with a loop that stops at the first failed step
V_step_exit_failfast ==
    /\ prog = "validate" /\ pc = "child"
    /\ \E c \in ExitCodes :
         /\ returncodes' = Append(returncodes, c)
         /\ results' = Append(results,
                [name |-> validation_steps[CurrentStep].name,
                 success |-> StepPasses(c)])
         /\ IF c = 0 THEN pc' = "start" /\ UNCHANGED exit_status
            ELSE pc' = "done" /\ exit_status' = 1
    /\ UNCHANGED <<prog, rr_args, b_args, sys_argv, exe_exists,
                   build_dir, launched, dir_at_launch, options, app_args,
                   config, executed, success, log, report>>

\* subprocess.run(check=True) ends: exit code 0 returns, any other code
\* raises CalledProcessError; either way one result is appended
V_step_exit ==
    /\ prog = "validate" /\ pc = "child"
    /\ \E c \in ExitCodes :
         /\ returncodes' = Append(returncodes, c)
         /\ results' = Append(results,
                [name |-> validation_steps[CurrentStep].name,
                 success |-> StepPasses(c)])
    /\ pc' = "start"
    /\ UNCHANGED <<prog, exit_status, rr_args, b_args, sys_argv, exe_exists,
                   build_dir, launched, dir_at_launch, options, app_args,
                   config, executed, success, log, report>>

\* KeyboardInterrupt while a step runs: "except KeyboardInterrupt" exits 1
V_interrupt ==
    /\ prog = "validate" /\ pc = "child"
    /\ log' = Append(log, "Validation cancelled by user")
    /\ exit_status' = 1
    /\ pc' = "done"
    /\ UNCHANGED <<prog, rr_args, b_args, sys_argv, exe_exists, build_dir,
                   launched, returncodes, dir_at_launch, options, app_args,
                   config, executed, success, results, report>>

\* V_report that succeeds as soon as one step passed
V_report_any ==
    /\ prog = "validate" /\ pc = "start"
    /\ CurrentStep > Len(validation_steps)
    /\ LET passed == Cardinality({i \in 1..Len(results) : results[i].success})
           total == Len(results)
       IN /\ report' = [printed |-> TRUE, passed |-> passed, total |-> total]
          /\ exit_status' = IF passed > 0 THEN 0 ELSE 1
    /\ pc' = "done"
    /\ UNCHANGED <<prog, rr_args, b_args, sys_argv, exe_exists, build_dir,
                   launched, returncodes, dir_at_launch, options, app_args,
                   config, executed, success, log, results>>

\* after the loop: summary report and return value
V_report ==
    /\ prog = "validate" /\ pc = "start"
    /\ CurrentStep > Len(validation_steps)
    /\ LET passed == Cardinality({i \in 1..Len(results) : results[i].success})
           total == Len(results)
       IN /\ report' = [printed |-> TRUE, passed |-> passed, total |-> total]
          /\ exit_status' = IF passed = total THEN 0 ELSE 1
    /\ pc' = "done"
    /\ UNCHANGED <<prog, rr_args, b_args, sys_argv, exe_exists, build_dir,
                   launched, returncodes, dir_at_launch, options, app_args,
                   config, executed, success, log, results>>

(***************************************************************************)
(* build.py                                                                *)
(***************************************************************************)
\* build_dir.exists(): a directory or a plain file of that name
Exists(d) == d.kind # "absent"

\* CleanAndCreate that removes the directory whether or not --clean is given
CleanAndCreateAlways(args, d) ==
    [kind |-> "dir", old |-> FALSE, stage |-> "none"]

\* "Clean if requested" and "Create build directory": the directory after
\* shutil.rmtree (when --clean and it exists) and mkdir(exist_ok=True)
CleanAndCreate(args, d) ==
    IF args.clean /\ Exists(d)
    THEN [kind |-> "dir", old |-> FALSE, stage |-> "none"]
    ELSE IF Exists(d) THEN d
    ELSE [kind |-> "dir", old |-> FALSE, stage |-> "none"]

\* "Configure with CMake"
cmake_cmd(args) ==
    <<"cmake",
      IF args.debug THEN "-DCMAKE_BUILD_TYPE=Debug"
                    ELSE "-DCMAKE_BUILD_TYPE=Release",
      "project_root">>

\* "Build"
build_cmd(args) ==
    <<"cmake", "--build", ".">>
    \o (IF args.jobs # None /\ TruthyInt(args.jobs[1])
        THEN <<"--parallel", StrInt(args.jobs[1])>> ELSE <<>>)

\* main up to the first run_command; rmtree and mkdir succeed on a
\* directory or on nothing
B_clean_mkdir ==
    /\ prog = "build" /\ pc = "start"
    /\ build_dir.kind # "file"
    /\ build_dir' = CleanAndCreate(b_args, build_dir)
    /\ log' = IF b_args.clean /\ Exists(build_dir)
              THEN Append(log, "Cleaning build directory...") ELSE log
    /\ pc' = "configure"
    /\ UNCHANGED <<prog, exit_status, rr_args, b_args, sys_argv, exe_exists,
                   launched, returncodes, dir_at_launch, options, app_args,
                   config, executed, success, results, report>>

\* a plain file named build: rmtree raises NotADirectoryError with --clean,
\* mkdir raises FileExistsError without; the exception is not caught and
\* the interpreter exits with status 1
B_clean_mkdir_raises ==
    /\ prog = "build" /\ pc = "start"
    /\ build_dir.kind = "file"
    /\ log' = IF b_args.clean
              THEN Append(log, "Cleaning build directory...") ELSE log
    /\ exit_status' = 1
    /\ pc' = "done"
    /\ UNCHANGED <<prog, rr_args, b_args, sys_argv, exe_exists, build_dir,
                   launched, returncodes, dir_at_launch, options, app_args,
                   config, executed, success, results, report>>

\* run_command(cmake_cmd, cwd=build_dir): subprocess.run starts cmake
B_configure ==
    /\ prog = "build" /\ pc = "configure"
    /\ launched' = Append(launched, cmake_cmd(b_args))
    /\ dir_at_launch' = Append(dir_at_launch, build_dir)
    /\ pc' = "child_configure"
    /\ UNCHANGED <<prog, exit_status, rr_args, b_args, sys_argv, exe_exists,
                   build_dir, returncodes, options, app_args, config,
                   executed, success, log, results, report>>

\* B_configure_exit that goes on to the build step whatever cmake returned
B_configure_exit_unchecked ==
    /\ prog = "build" /\ pc = "child_configure"
    /\ \E c \in ExitCodes :
         /\ returncodes' = Append(returncodes, c)
         /\ build_dir' = [build_dir EXCEPT !.stage = "configured"]
         /\ pc' = "build"
         /\ UNCHANGED <<log, exit_status>>
    /\ UNCHANGED <<prog, rr_args, b_args, sys_argv, exe_exists, launched,
                   dir_at_launch, options, app_args, config, executed,
                   success, results, report>>

\* cmake terminates with code c: run_command returns c == 0
B_configure_exit ==
    /\ prog = "build" /\ pc = "child_configure"
    /\ \E c \in ExitCodes :
         /\ returncodes' = Append(returncodes, c)
         /\ IF c = 0
            THEN /\ build_dir' = [build_dir EXCEPT !.stage = "configured"]
                 /\ pc' = "build"
                 /\ UNCHANGED <<log, exit_status>>
            ELSE /\ log' = Append(log, "CMake configuration failed!")
                 /\ exit_status' = 1
                 /\ pc' = "done"
                 /\ UNCHANGED build_dir
    /\ UNCHANGED <<prog, rr_args, b_args, sys_argv, exe_exists, launched,
                   dir_at_launch, options, app_args, config, executed,
                   success, results, report>>

\* run_command(build_cmd, cwd=build_dir): subprocess.run starts the build
B_build ==
    /\ prog = "build" /\ pc = "build"
    /\ launched' = Append(launched, build_cmd(b_args))
    /\ dir_at_launch' = Append(dir_at_launch, build_dir)
    /\ pc' = "child_build"
    /\ UNCHANGED <<prog, exit_status, rr_args, b_args, sys_argv, exe_exists,
                   build_dir, returncodes, options, app_args, config,
                   executed, success, log, results, report>>

\* the build terminates with code c
B_build_exit ==
    /\ prog = "build" /\ pc = "child_build"
    /\ \E c \in ExitCodes :
         /\ returncodes' = Append(returncodes, c)
         /\ IF c = 0
            THEN /\ build_dir' = [build_dir EXCEPT !.stage = "built"]
                 /\ log' = Append(log, "Build successful!")
                 /\ exit_status' = 0
            ELSE /\ log' = Append(log, "Build failed!")
                 /\ exit_status' = 1
                 /\ UNCHANGED build_dir
    /\ pc' = "done"
    /\ UNCHANGED <<prog, rr_args, b_args, sys_argv, exe_exists, launched,
                   dir_at_launch, options, app_args, config, executed,
                   success, results, report>>

\* subprocess.run cannot start cmake (OSError): not caught, status 1
B_run_raises ==
    /\ prog = "build" /\ pc \in {"configure", "build"}
    /\ launched' = Append(launched,
            IF pc = "configure" THEN cmake_cmd(b_args) ELSE build_cmd(b_args))
    /\ dir_at_launch' = Append(dir_at_launch, build_dir)
    /\ log' = Append(log, "Traceback")
    /\ exit_status' = 1
    /\ pc' = "done"
    /\ UNCHANGED <<prog, rr_args, b_args, sys_argv, exe_exists, build_dir,
                   returncodes, options, app_args, config, executed, success,
                   results, report>>

(***************************************************************************)
(* llm-repl.py: main, argument parsing                                     *)
(***************************************************************************)
\* words a command line is made of
Commands == {"help", "HELP", "status", "clean", "build", "Build", "run",
             "test", "format", "deploy"}
ArgTokens == {"--", "--debug", "--release", "--verbose", "--jobs", "2", "x"}
ArgLists == UNION {[1..n -> ArgTokens] : n \in 0..MaxArgs}

\* str.lower()
lower(w) == CASE w = "HELP" -> "help"
              [] w = "Build" -> "build"
              [] OTHER -> w

\* x in list, list.index(x)
In(x, list) == \E i \in 1..Len(list) : list[i] = x
index(list, x) == CHOOSE i \in 1..Len(list) :
                      list[i] = x /\ \A j \in 1..(i - 1) : list[j] # x

\* int(tok): ValueError unless the token is a decimal literal
IsInt(tok) == tok \in {"0", "2", "100"}

\* "Separate app arguments if -- is present"
Options(args) ==
    IF In("--", args) THEN SubSeq(args, 1, index(args, "--") - 1) ELSE args
\* AppArgs that keeps the separator (slice from sep_index)
AppArgsFromSeparator(args) ==
    IF In("--", args) THEN SubSeq(args, index(args, "--"), Len(args))
    ELSE <<>>
AppArgs(args) ==
    IF In("--", args) THEN SubSeq(args, index(args, "--") + 1, Len(args))
    ELSE <<>>

\* the --jobs block: [ok |-> FALSE] is the ValueError branch
ParseJobs(opts) ==
    IF In("--jobs", opts)
    THEN LET job_index == index(opts, "--jobs")
         IN IF job_index + 1 <= Len(opts)
            THEN IF IsInt(opts[job_index + 1])
                 THEN [ok |-> TRUE, jobs |-> IntTok(opts[job_index + 1])]
                 ELSE [ok |-> FALSE, jobs |-> 4]
            ELSE [ok |-> TRUE, jobs |-> 4]
    ELSE [ok |-> TRUE, jobs |-> 4]

\* MakeConfig in which --release overrides --debug
MakeConfigReleaseWins(opts) ==
    [build_type |-> IF In("--debug", opts) /\ ~In("--release", opts)
                    THEN "Debug" ELSE "Release",
     jobs |-> ParseJobs(opts).jobs,
     verbose |-> In("--verbose", opts)]

\* BuildConfig(build_type=..., jobs=jobs, verbose=verbose)
MakeConfig(opts) ==
    [build_type |-> IF In("--debug", opts) THEN "Debug" ELSE "Release",
     jobs |-> ParseJobs(opts).jobs,
     verbose |-> In("--verbose", opts)]

\* MainReturn that ignores the value of execute()
MainReturnZero(ok) == 0

\* "return 0 if success else 1"
MainReturn(ok) == IF ok THEN 0 ELSE 1

command == lower(sys_argv[1])
args == Tail(sys_argv)

\* main from "Parse additional arguments" to the dispatch on command c
Dispatch(c) ==
    /\ prog = "llm-repl" /\ pc = "start"
    /\ Len(sys_argv) >= 1 /\ command # "help"
    /\ ParseJobs(Options(args)).ok
    /\ command = c
    /\ options' = Options(args)
    /\ app_args' = AppArgs(args)
    /\ config' = MakeConfig(Options(args))

\* len(sys.argv) < 2, or the command is help
LR_show_help ==
    /\ prog = "llm-repl" /\ pc = "start"
    /\ IF Len(sys_argv) = 0 THEN TRUE ELSE command = "help"
    /\ log' = Append(log, "USAGE")
    /\ exit_status' = 0
    /\ pc' = "done"
    /\ UNCHANGED <<prog, rr_args, b_args, sys_argv, exe_exists, build_dir,
                   launched, returncodes, dir_at_launch, options, app_args,
                   config, executed, success, results, report>>

\* int() raises ValueError on the token after --jobs
LR_invalid_jobs ==
    /\ prog = "llm-repl" /\ pc = "start"
    /\ Len(sys_argv) >= 1 /\ command # "help"
    /\ ~ParseJobs(Options(args)).ok
    /\ options' = Options(args)
    /\ app_args' = AppArgs(args)
    /\ log' = Append(log, "Invalid --jobs value")
    /\ exit_status' = 1
    /\ pc' = "done"
    /\ UNCHANGED <<prog, rr_args, b_args, sys_argv, exe_exists, build_dir,
                   launched, returncodes, dir_at_launch, config, executed,
                   success, results, report>>

\* the else branch of the dispatch
LR_unknown_command ==
    /\ \E c \in {lower(w) : w \in Commands}
                 \ {"status", "clean", "build", "run", "test", "format"} :
           Dispatch(c)
    /\ log' = log \o <<"Unknown command", "USAGE">>
    /\ exit_status' = 1
    /\ pc' = "done"
    /\ UNCHANGED <<prog, rr_args, b_args, sys_argv, exe_exists, build_dir,
                   launched, returncodes, dir_at_launch, executed, success,
                   results, report>>

\* how a command's execute() ends, seen from main: it returns a bool, or an
\* Exception or a KeyboardInterrupt leaves it
Finish(name, o) ==
    /\ executed' = Append(executed, name)
    /\ pc' = "done"
    /\ CASE o.kind = "return" ->
              /\ success' = Some(o.value)
              /\ log' = IF o.msg = "" THEN log ELSE Append(log, o.msg)
              /\ exit_status' = MainReturn(o.value)
         [] o.kind = "exception" ->
              /\ success' = None
              /\ log' = Append(log, "Script execution failed")
              /\ exit_status' = 1
         [] o.kind = "interrupt" ->
              /\ success' = None
              /\ log' = Append(log, "Operation interrupted by user")
              /\ exit_status' = 1

Return(b, m) == [kind |-> "return", value |-> b, msg |-> m]
Raise == [kind |-> "exception", value |-> FALSE, msg |-> ""]
Interrupt == [kind |-> "interrupt", value |-> FALSE, msg |-> ""]

\* StatusCommand.execute: returns True; the bare except around the version
\* checks swallows whatever is raised there
LR_status ==
    /\ Dispatch("status")
    /\ \E o \in {Return(TRUE, ""), Return(TRUE, "version check failed"),
                 Raise, Interrupt} : Finish("status", o)
    /\ UNCHANGED <<prog, rr_args, b_args, sys_argv, exe_exists, build_dir,
                   launched, returncodes, dir_at_launch, results, report>>

\* CleanCommand.execute: removes the build directory, False when rmtree fails
LR_clean ==
    /\ Dispatch("clean")
    /\ \/ /\ build_dir.kind # "file"
          /\ build_dir' = [kind |-> "absent", old |-> FALSE, stage |-> "none"]
          /\ exe_exists' = FALSE
          /\ \E o \in {Return(TRUE, ""), Raise, Interrupt} : Finish("clean", o)
       \/ /\ Exists(build_dir)
          /\ UNCHANGED <<build_dir, exe_exists>>
          /\ Finish("clean", Return(FALSE, "Failed to clean build directory"))
    /\ UNCHANGED <<prog, rr_args, b_args, sys_argv, launched, returncodes,
                   dir_at_launch, results, report>>

\* TestCommand.execute: passed == total; the tests need the executable
LR_test ==
    /\ Dispatch("test")
    /\ \E o \in {Return(FALSE, "SOME TESTS FAILED"), Interrupt}
                \cup (IF exe_exists THEN {Return(TRUE, "")} ELSE {}) :
           Finish("test", o)
    /\ UNCHANGED <<prog, rr_args, b_args, sys_argv, exe_exists, build_dir,
                   launched, returncodes, dir_at_launch, results, report>>

\* FormatCommand.execute
LR_format ==
    /\ Dispatch("format")
    /\ \E o \in {Return(TRUE, ""), Return(FALSE, "clang-format not found"),
                 Return(FALSE, "Failed to format"), Raise, Interrupt} :
           Finish("format", o)
    /\ UNCHANGED <<prog, rr_args, b_args, sys_argv, exe_exists, build_dir,
                   launched, returncodes, dir_at_launch, results, report>>

(***************************************************************************)
(* llm-repl.py: BuildCommand                                               *)
(***************************************************************************)
cmake_args(cfg) ==
    <<"cmake", "..", "-DCMAKE_CXX_COMPILER=clang++",
      IF cfg.build_type = "Debug" THEN "-DCMAKE_BUILD_TYPE=Debug"
                                  ELSE "-DCMAKE_BUILD_TYPE=Release",
      "-G", "Unix Makefiles">>

\* ["make", f"-j{config.jobs}"] and VERBOSE=1; the job count is kept as a
\* number next to the flag
make_args(cfg) ==
    <<"make", "-j", cfg.jobs>> \o (IF cfg.verbose THEN <<"VERBOSE=1">> ELSE <<>>)

\* BuildCommand.execute up to the try block: "Create build directory"
LR_build ==
    /\ Dispatch("build")
    /\ build_dir' = IF Exists(build_dir) THEN build_dir
                    ELSE [kind |-> "dir", old |-> FALSE, stage |-> "none"]
    /\ executed' = Append(executed, "build")
    /\ pc' = "cmake"
    /\ UNCHANGED <<prog, exit_status, rr_args, b_args, sys_argv, exe_exists,
                   launched, returncodes, dir_at_launch, success, log,
                   results, report>>

\* run_command(cmake_args, cwd=build_dir)
LR_cmake ==
    /\ prog = "llm-repl" /\ pc = "cmake"
    /\ build_dir.kind = "dir"
    /\ launched' = Append(launched, cmake_args(config))
    /\ dir_at_launch' = Append(dir_at_launch, build_dir)
    /\ pc' = "child_cmake"
    /\ UNCHANGED <<prog, exit_status, rr_args, b_args, sys_argv, exe_exists,
                   build_dir, returncodes, options, app_args, config,
                   executed, success, log, results, report>>

\* cmake ends: check=True raises CalledProcessError on a non-zero code,
\* which execute catches and answers with False
LR_cmake_exit ==
    /\ prog = "llm-repl" /\ pc = "child_cmake"
    /\ \E c \in ExitCodes :
         /\ returncodes' = Append(returncodes, c)
         /\ IF c = 0
            THEN /\ build_dir' = [build_dir EXCEPT !.stage = "configured"]
                 /\ log' = Append(log, "CMake configuration completed")
                 /\ pc' = "make"
                 /\ UNCHANGED <<success, exit_status>>
            ELSE /\ log' = log \o <<"Command failed", "Build failed">>
                 /\ success' = Some(FALSE)
                 /\ exit_status' = MainReturn(FALSE)
                 /\ pc' = "done"
                 /\ UNCHANGED build_dir
    /\ UNCHANGED <<prog, rr_args, b_args, sys_argv, exe_exists, launched,
                   dir_at_launch, options, app_args, config, executed,
                   results, report>>

\* run_command(make_args, cwd=build_dir)
LR_make ==
    /\ prog = "llm-repl" /\ pc = "make"
    /\ launched' = Append(launched, make_args(config))
    /\ dir_at_launch' = Append(dir_at_launch, build_dir)
    /\ pc' = "child_make"
    /\ UNCHANGED <<prog, exit_status, rr_args, b_args, sys_argv, exe_exists,
                   build_dir, returncodes, options, app_args, config,
                   executed, success, log, results, report>>

\* LR_make_exit without the check that the executable was created
LR_make_exit_unchecked ==
    /\ prog = "llm-repl" /\ pc = "child_make"
    /\ \E c \in ExitCodes :
         /\ returncodes' = Append(returncodes, c)
         /\ IF c = 0
            THEN /\ build_dir' = [build_dir EXCEPT !.stage = "built"]
                 /\ \E made \in BOOLEAN :
                      /\ exe_exists' = (exe_exists \/ made)
                      /\ log' = Append(log, "Build completed")
                      /\ success' = Some(TRUE)
                      /\ exit_status' = MainReturn(TRUE)
            ELSE /\ log' = log \o <<"Command failed", "Build failed">>
                 /\ success' = Some(FALSE)
                 /\ exit_status' = MainReturn(FALSE)
                 /\ UNCHANGED <<build_dir, exe_exists>>
    /\ pc' = "done"
    /\ UNCHANGED <<prog, rr_args, b_args, sys_argv, launched, dir_at_launch,
                   options, app_args, config, executed, results, report>>

\* make ends; after a successful make, "Check if executable was created"
LR_make_exit ==
    /\ prog = "llm-repl" /\ pc = "child_make"
    /\ \E c \in ExitCodes :
         /\ returncodes' = Append(returncodes, c)
         /\ IF c = 0
            THEN /\ build_dir' = [build_dir EXCEPT !.stage = "built"]
                 /\ \E made \in BOOLEAN :
                      /\ exe_exists' = (exe_exists \/ made)
                      /\ log' = Append(log,
                            IF exe_exists \/ made THEN "Executable created"
                            ELSE "Executable not found after build")
                      /\ success' = Some(exe_exists \/ made)
                      /\ exit_status' = MainReturn(exe_exists \/ made)
            ELSE /\ log' = log \o <<"Command failed", "Build failed">>
                 /\ success' = Some(FALSE)
                 /\ exit_status' = MainReturn(FALSE)
                 /\ UNCHANGED <<build_dir, exe_exists>>
    /\ pc' = "done"
    /\ UNCHANGED <<prog, rr_args, b_args, sys_argv, launched, dir_at_launch,
                   options, app_args, config, executed, results, report>>

\* subprocess.run cannot start the tool (OSError: tool missing, or build is
\* a plain file): only CalledProcessError is caught in execute, main's
\* "except Exception" returns 1
LR_build_raises ==
    /\ prog = "llm-repl" /\ pc \in {"cmake", "make"}
    /\ launched' = Append(launched,
            IF pc = "cmake" THEN cmake_args(config) ELSE make_args(config))
    /\ dir_at_launch' = Append(dir_at_launch, build_dir)
    /\ log' = Append(log, "Script execution failed")
    /\ exit_status' = 1
    /\ pc' = "done"
    /\ UNCHANGED <<prog, rr_args, b_args, sys_argv, exe_exists, build_dir,
                   returncodes, options, app_args, config, executed, success,
                   results, report>>

\* KeyboardInterrupt while cmake or make runs: main returns 1
LR_build_interrupt ==
    /\ prog = "llm-repl" /\ pc \in {"child_cmake", "child_make"}
    /\ log' = Append(log, "Operation interrupted by user")
    /\ exit_status' = 1
    /\ pc' = "done"
    /\ UNCHANGED <<prog, rr_args, b_args, sys_argv, exe_exists, build_dir,
                   launched, returncodes, dir_at_launch, options, app_args,
                   config, executed, success, results, report>>

(***************************************************************************)
(* llm-repl.py: RunCommand                                                 *)
(***************************************************************************)
\* "Prepare arguments": if not app_args: app_args = ["--help"]
RunArgs(a) == IF a = <<>> THEN <<"--help">> ELSE a

\* RunCommand.execute, executable missing
LR_run_no_executable ==
    /\ Dispatch("run")
    /\ ~exe_exists
    /\ Finish("run", Return(FALSE, "Executable not found"))
    /\ UNCHANGED <<prog, rr_args, b_args, sys_argv, exe_exists, build_dir,
                   launched, returncodes, dir_at_launch, results, report>>

\* RunCommand.execute up to subprocess.run
LR_run ==
    /\ Dispatch("run")
    /\ exe_exists
    /\ executed' = Append(executed, "run")
    /\ launched' = Append(launched, <<ExePath>> \o RunArgs(AppArgs(args)))
    /\ dir_at_launch' = Append(dir_at_launch, build_dir)
    /\ pc' = "child_run"
    /\ UNCHANGED <<prog, exit_status, rr_args, b_args, sys_argv, exe_exists,
                   build_dir, returncodes, success, log, results, report>>

\* LR_run_exit that treats a non-zero exit code as a failure
LR_run_exit_checked ==
    /\ prog = "llm-repl" /\ pc = "child_run"
    /\ \E c \in ExitCodes :
         /\ returncodes' = Append(returncodes, c)
         /\ log' = Append(log, IF c = 0 THEN "Application exited successfully"
                               ELSE "Application exited with code")
         /\ success' = Some(c = 0)
         /\ exit_status' = MainReturn(c = 0)
    /\ pc' = "done"
    /\ UNCHANGED <<prog, rr_args, b_args, sys_argv, exe_exists, build_dir,
                   launched, dir_at_launch, options, app_args, config,
                   executed, results, report>>

\* the application ends with code c (check=False): execute returns True
LR_run_exit ==
    /\ prog = "llm-repl" /\ pc = "child_run"
    /\ \E c \in ExitCodes :
         /\ returncodes' = Append(returncodes, c)
         /\ log' = Append(log, IF c = 0 THEN "Application exited successfully"
                               ELSE "Application exited with code")
    /\ success' = Some(TRUE)
    /\ exit_status' = MainReturn(TRUE)
    /\ pc' = "done"
    /\ UNCHANGED <<prog, rr_args, b_args, sys_argv, exe_exists, build_dir,
                   launched, dir_at_launch, options, app_args, config,
                   executed, results, report>>

\* KeyboardInterrupt while the application runs: caught in execute,
\* which returns True
LR_run_interrupt ==
    /\ prog = "llm-repl" /\ pc = "child_run"
    /\ log' = Append(log, "Application interrupted by user")
    /\ success' = Some(TRUE)
    /\ exit_status' = MainReturn(TRUE)
    /\ pc' = "done"
    /\ UNCHANGED <<prog, rr_args, b_args, sys_argv, exe_exists, build_dir,
                   launched, returncodes, dir_at_launch, options, app_args,
                   config, executed, results, report>>

\* subprocess.run raises another exception: execute returns False
LR_run_raises ==
    /\ prog = "llm-repl" /\ pc = "child_run"
    /\ log' = Append(log, "Failed to run application")
    /\ success' = Some(FALSE)
    /\ exit_status' = MainReturn(FALSE)
    /\ pc' = "done"
    /\ UNCHANGED <<prog, rr_args, b_args, sys_argv, exe_exists, build_dir,
                   launched, returncodes, dir_at_launch, options, app_args,
                   config, executed, results, report>>

(***************************************************************************)
(* Specification                                                           *)
(***************************************************************************)
\* the build directory before the run: nothing, a directory left by an
\* earlier build, or a plain file of that name
BuildDirs == {[kind |-> "absent", old |-> FALSE, stage |-> "none"],
              [kind |-> "dir", old |-> TRUE, stage |-> "none"],
              [kind |-> "dir", old |-> TRUE, stage |-> "built"],
              [kind |-> "file", old |-> TRUE, stage |-> "none"]}

InitCommon ==
    /\ pc = "start"
    /\ exit_status = Running
    /\ launched = <<>>
    /\ returncodes = <<>>
    /\ dir_at_launch = <<>>
    /\ options = <<>>
    /\ app_args = <<>>
    /\ config = NoConfig
    /\ executed = <<>>
    /\ success = None
    /\ log = <<>>
    /\ results = <<>>
    /\ report = NoReport

InitRR ==
    /\ prog = "repl_runner"
    /\ \E t \in RRTyped : rr_args = RRParse(t)
    /\ b_args = NoArgsB
    /\ sys_argv = <<>>
    /\ exe_exists \in BOOLEAN
    /\ build_dir = [kind |-> "dir", old |-> TRUE, stage |-> "built"]

InitV ==
    /\ prog = "validate"
    /\ rr_args = RRParse(CHOOSE t \in RRTyped : TRUE)
    /\ b_args = NoArgsB
    /\ sys_argv = <<>>
    /\ exe_exists = FALSE
    /\ build_dir = [kind |-> "absent", old |-> FALSE, stage |-> "none"]

InitB ==
    /\ prog = "build"
    /\ rr_args = RRParse(CHOOSE t \in RRTyped : TRUE)
    /\ b_args \in [clean : BOOLEAN, debug : BOOLEAN, jobs : Opt({0, 2})]
    /\ sys_argv = <<>>
    /\ exe_exists = FALSE
    /\ build_dir \in BuildDirs

\* the file system llm-repl.py starts in: the executable lives in the
\* build directory
InitLR ==
    /\ prog = "llm-repl"
    /\ rr_args = RRParse(CHOOSE t \in RRTyped : TRUE)
    /\ b_args = NoArgsB
    /\ sys_argv \in {<<>>} \cup {<<c>> \o a : c \in Commands, a \in ArgLists}
                      \cup {StepArgv(i) : i \in 1..Len(validation_steps)}
    /\ build_dir \in BuildDirs
    /\ exe_exists \in BOOLEAN
    /\ exe_exists => (build_dir.kind = "dir" /\ build_dir.stage = "built")

Init == InitCommon /\ (InitRR \/ InitV \/ InitB \/ InitLR)

Next ==
    \/ RR_launch
    \/ RR_no_executable
    \/ RR_process_exit
    \/ RR_process_interrupt
    \/ RR_process_exception
    \/ V_invoke
    \/ V_launch_fails
    \/ V_step_exit
    \/ V_interrupt
    \/ V_report
    \/ B_clean_mkdir
    \/ B_clean_mkdir_raises
    \/ B_configure
    \/ B_configure_exit
    \/ B_build
    \/ B_build_exit
    \/ B_run_raises
    \/ LR_show_help
    \/ LR_invalid_jobs
    \/ LR_unknown_command
    \/ LR_status
    \/ LR_clean
    \/ LR_test
    \/ LR_format
    \/ LR_build
    \/ LR_cmake
    \/ LR_cmake_exit
    \/ LR_make
    \/ LR_make_exit
    \/ LR_build_raises
    \/ LR_build_interrupt
    \/ LR_run_no_executable
    \/ LR_run
    \/ LR_run_exit
    \/ LR_run_interrupt
    \/ LR_run_raises

Spec == Init /\ [][Next]_vars

(***************************************************************************)
(* Claims                                                                  *)
(***************************************************************************)
\* C1: whenever repl_runner.py launched the executable and it terminated
\* with exit code c, the exit status of repl_runner.py is c.
RelaysExitCode ==
    (prog = "repl_runner" /\ pc = "done" /\ Len(returncodes) = 1)
        => exit_status = returncodes[1]

\* C2 (as claimed): unless the run is interrupted by the user, validate.py
\* ends having invoked all seven steps in order, recorded one result per
\* step and printed the report, also when a step could not be launched.
AllStepsWhateverOutcome ==
    (prog = "validate" /\ pc = "done"
        /\ \A i \in 1..Len(log) : log[i] # "Validation cancelled by user")
        => /\ launched = [i \in 1..Len(validation_steps) |->
                              validation_steps[i].command]
           /\ Len(results) = Len(validation_steps)
           /\ report.printed

\* C2 (amended): the steps are invoked in the listed order, each once and
\* only after the previous one finished, with one result per finished step;
\* whatever exit codes the steps return, a run in which every step could be
\* launched and that was not interrupted invokes all seven and prints the
\* report; a step that cannot be launched ends the run with status 1 and
\* without a report.
StepsSequential ==
    prog = "validate" =>
        /\ Len(launched) <= Len(validation_steps)
        /\ \A i \in 1..Len(launched) : launched[i] = validation_steps[i].command
        /\ Len(results) = Len(returncodes)
        /\ \A i \in 1..Len(results) : results[i].name = validation_steps[i].name
        /\ Len(launched) = Len(returncodes) + (IF pc = "child" \/ (pc = "done" /\ log # <<>>) THEN 1 ELSE 0)
        /\ (pc = "done" /\ log = <<>>) =>
              /\ Len(launched) = Len(validation_steps)
              /\ Len(results) = Len(validation_steps)
              /\ report.printed
        /\ (pc = "done" /\ log # <<>>) => (exit_status = 1 /\ ~report.printed)

\* C2 witness: a run in which an early step failed and all seven were run
StepsSequentialWitness ==
    /\ prog = "validate" /\ pc = "done" /\ report.printed
    /\ returncodes[1] # 0 /\ returncodes[3] # 0
    /\ Len(launched) = 7

\* C3: validate.py exits 0 iff all seven steps exited 0, and 1 otherwise;
\* the printed count of passed steps is the number of steps that exited 0
\* and the printed total is the number of steps.
ValidateExitStatus ==
    (prog = "validate" /\ pc = "done") =>
        /\ exit_status \in {0, 1}
        /\ exit_status = 0 <=>
              (Len(returncodes) = 7 /\ \A i \in 1..7 : returncodes[i] = 0)
        /\ report.printed =>
              /\ report.passed = Cardinality({i \in 1..Len(returncodes) :
                                                returncodes[i] = 0})
              /\ report.total = 7

\* C3 witness: a report with some steps passed and some failed
ValidateExitStatusWitness ==
    /\ prog = "validate" /\ pc = "done" /\ report.printed
    /\ report.passed = 4 /\ exit_status = 1

\* C3 witness: a fully successful validation
ValidateAllPassedWitness ==
    /\ prog = "validate" /\ pc = "done" /\ report.printed
    /\ report.passed = 7 /\ exit_status = 0

\* C9: build.py runs the configure step and then the build step; the build
\* step is invoked only if configure exited 0; the exit status is 0 iff
\* both subprocesses exited 0, and 1 otherwise.
ConfigureThenBuild ==
    prog = "build" =>
        /\ Len(launched) <= 2
        /\ Len(launched) >= 1 =>
              (launched[1][1] = "cmake" /\ launched[1][2] # "--build")
        /\ Len(launched) = 2 =>
              /\ launched[2][1] = "cmake" /\ launched[2][2] = "--build"
              /\ Len(returncodes) >= 1 /\ returncodes[1] = 0
        /\ pc = "done" =>
              /\ exit_status \in {0, 1}
              /\ exit_status = 0 <=>
                    (Len(returncodes) = 2 /\ returncodes[1] = 0 /\ returncodes[2] = 0)

\* C9 witness: configure succeeded and the build step failed
ConfigureThenBuildWitness ==
    /\ prog = "build" /\ pc = "done" /\ Len(returncodes) = 2
    /\ returncodes[2] # 0 /\ exit_status = 1

\* C10: build.py removes the previous build directory only with --clean,
\* when it exists, and before the configure step; without --clean the
\* script leaves an existing directory and its contents alone; the build
\* directory exists whenever a cmake subprocess is started.
DeletesOnlyOnClean ==
    /\ [](prog = "build" =>
            \A i \in 1..Len(dir_at_launch) :
                /\ dir_at_launch[i].kind = "dir"
                /\ b_args.clean => ~dir_at_launch[i].old)
    /\ [][prog = "build" =>
            /\ (build_dir.old /\ ~build_dir'.old) =>
                  (b_args.clean /\ Exists(build_dir) /\ launched = <<>>)
            /\ ~b_args.clean =>
                  /\ build_dir'.old = build_dir.old
                  /\ Exists(build_dir) => build_dir'.kind = build_dir.kind]_vars

\* C10 witness: --clean on an existing directory, cmake started afterwards
DeletesOnlyOnCleanWitness ==
    /\ prog = "build" /\ b_args.clean /\ Len(launched) = 2
    /\ log # <<>> /\ log[1] = "Cleaning build directory..."
    /\ ~build_dir.old

\* C10 witness: no --clean, the old contents are still there after the build
KeepsDirWithoutCleanWitness ==
    /\ prog = "build" /\ ~b_args.clean /\ pc = "done" /\ exit_status = 0
    /\ build_dir.old

\* Helpers of the llm-repl.py claims, stated on the command line itself:
\* the number of arguments before the first "--" and the option words there
SixCommands == {"status", "clean", "build", "run", "test", "format"}
IsHelp == IF Len(sys_argv) = 0 THEN TRUE ELSE lower(sys_argv[1]) = "help"
Given == Tail(sys_argv)
Separators == {i \in 1..Len(Given) : Given[i] = "--"}
OptionCount ==
    IF Separators = {} THEN Len(Given)
    ELSE (CHOOSE i \in Separators : \A j \in Separators : i <= j) - 1
OptionWords == {Given[i] : i \in 1..OptionCount}
AfterSeparator == SubSeq(Given, OptionCount + 2, Len(Given))
FirstJobs == CHOOSE i \in 1..OptionCount :
                 Given[i] = "--jobs" /\ \A j \in 1..(i - 1) : Given[j] # "--jobs"
Logged(m) == \E i \in 1..Len(log) : log[i] = m

\* C4 (as claimed): exit status of llm-repl.py: help or no argument gives 0
\* and runs nothing; a known command gives 0 iff its execute() returned
\* True; another command gives 1 and runs nothing; every exception or
\* interrupt raised while a command executes gives 1.
MainExitStatusAnyRaise ==
    (prog = "llm-repl" /\ pc = "done") =>
        IF IsHelp
        THEN exit_status = 0 /\ executed = <<>> /\ launched = <<>>
        ELSE IF command \in SixCommands
        THEN /\ exit_status = 0 <=> success = Some(TRUE)
             /\ exit_status \in {0, 1}
             /\ executed \in {<<>>, <<command>>}
             /\ (\/ Logged("Operation interrupted by user")
                 \/ Logged("Script execution failed")
                 \/ Logged("Application interrupted by user")
                 \/ Logged("Failed to run application")
                 \/ Logged("version check failed")
                 \/ Logged("Failed to clean build directory")
                 \/ Logged("Build failed")) => exit_status = 1
        ELSE exit_status = 1 /\ executed = <<>> /\ launched = <<>>

\* C4 (amended): as above, but only an exception or interrupt that leaves
\* execute() and reaches main gives 1; one that execute() handles itself
\* counts through the value execute() returns.
MainExitStatus ==
    (prog = "llm-repl" /\ pc = "done") =>
        IF IsHelp
        THEN exit_status = 0 /\ executed = <<>> /\ launched = <<>>
        ELSE IF command \in SixCommands
        THEN /\ exit_status = 0 <=> success = Some(TRUE)
             /\ exit_status \in {0, 1}
             /\ executed \in {<<>>, <<command>>}
             /\ (\/ Logged("Operation interrupted by user")
                 \/ Logged("Script execution failed"))
                    => (exit_status = 1 /\ success = None)
        ELSE exit_status = 1 /\ executed = <<>> /\ launched = <<>>

\* C4 witness: an interrupt left format's execute() and main returned 1
MainExitStatusWitness ==
    /\ prog = "llm-repl" /\ pc = "done" /\ executed = <<"format">>
    /\ Logged("Operation interrupted by user") /\ exit_status = 1

\* C4 witness: the application was interrupted under run, main returned 0
RunInterruptedWitness ==
    /\ prog = "llm-repl" /\ pc = "done" /\ executed = <<"run">>
    /\ Logged("Application interrupted by user") /\ exit_status = 0

\* C5: run starts the executable with exactly the arguments after the first
\* "--", or with --help when there are none; nothing before the "--" is
\* passed on, and nothing after it is read as a script option.
RunForwardsAppArgs ==
    (prog = "llm-repl" /\ ~IsHelp /\ command = "run" /\ pc # "start") =>
        /\ launched # <<>> =>
              /\ Len(launched) = 1
              /\ launched[1] = <<ExePath>> \o
                    (IF AfterSeparator = <<>> THEN <<"--help">>
                     ELSE AfterSeparator)
              /\ config.build_type = "Debug" <=> "--debug" \in OptionWords
              /\ config.verbose <=> "--verbose" \in OptionWords
              /\ "--jobs" \notin OptionWords => config.jobs = 4
        /\ Logged("Invalid --jobs value") => "--jobs" \in OptionWords

\* C5 witness: options before the "--" and option words after it
RunForwardsAppArgsWitness ==
    /\ prog = "llm-repl" /\ pc = "child_run"
    /\ sys_argv = <<"run", "--verbose", "--", "--debug">>
    /\ launched = <<<<ExePath, "--debug">>>>

\* C6: every flag given to repl_runner.py reaches the executable in its long
\* form with its value, in the order config, provider, model, api-key,
\* temperature, max-tokens, verbose; flags not given add nothing.
ForwardsEveryFlag ==
    (prog = "repl_runner" /\ ~rr_args.help_repl /\ launched # <<>>) =>
        launched[1] = <<ExePath>>
            \o (IF rr_args.config = None THEN <<>>
                ELSE <<"--config", rr_args.config[1]>>)
            \o (IF rr_args.provider = None THEN <<>>
                ELSE <<"--provider", rr_args.provider[1]>>)
            \o (IF rr_args.model = None THEN <<>>
                ELSE <<"--model", rr_args.model[1]>>)
            \o (IF rr_args.api_key = None THEN <<>>
                ELSE <<"--api-key", rr_args.api_key[1]>>)
            \o (IF rr_args.temperature = None THEN <<>>
                ELSE <<"--temperature", StrFloat(rr_args.temperature[1])>>)
            \o (IF rr_args.max_tokens = None THEN <<>>
                ELSE <<"--max-tokens", StrInt(rr_args.max_tokens[1])>>)
            \o (IF rr_args.verbose THEN <<"--verbose">> ELSE <<>>)

\* C7 (as claimed): build configures CMake with Debug when --debug is given,
\* with Release when --release is given, and with Release when neither is.
BuildTypeFromEachOption ==
    (prog = "llm-repl" /\ ~IsHelp /\ command = "build" /\ launched # <<>>) =>
        /\ "--debug" \in OptionWords =>
              launched[1][4] = "-DCMAKE_BUILD_TYPE=Debug"
        /\ "--release" \in OptionWords =>
              launched[1][4] = "-DCMAKE_BUILD_TYPE=Release"
        /\ OptionWords \cap {"--debug", "--release"} = {} =>
              launched[1][4] = "-DCMAKE_BUILD_TYPE=Release"

\* C7 (amended): build configures CMake with Debug when --debug is among the
\* options, whether or not --release is too, and with Release otherwise.
BuildTypeDebugWins ==
    (prog = "llm-repl" /\ ~IsHelp /\ command = "build" /\ launched # <<>>) =>
        /\ launched[1][1] = "cmake"
        /\ launched[1][4] = IF "--debug" \in OptionWords
                            THEN "-DCMAKE_BUILD_TYPE=Debug"
                            ELSE "-DCMAKE_BUILD_TYPE=Release"

\* C7 witness: both --debug and --release, CMake configured with Debug
BuildTypeDebugWinsWitness ==
    /\ prog = "llm-repl" /\ pc = "child_cmake"
    /\ sys_argv = <<"build", "--release", "--debug">>
    /\ launched[1][4] = "-DCMAKE_BUILD_TYPE=Debug"

\* C8: without --jobs the job count is 4; --jobs N runs make -jN; --jobs
\* not followed by an integer (another word, or nothing) reports
\* "Invalid --jobs value" and returns 1 with no command executed.
JobsHandling ==
    (prog = "llm-repl" /\ ~IsHelp /\ pc = "done") =>
        IF "--jobs" \notin OptionWords
        THEN /\ ~Logged("Invalid --jobs value")
             /\ \A i \in 1..Len(launched) :
                    launched[i][1] = "make" => launched[i][3] = 4
        ELSE IF FirstJobs + 1 <= OptionCount /\ IsInt(Given[FirstJobs + 1])
        THEN /\ ~Logged("Invalid --jobs value")
             /\ \A i \in 1..Len(launched) :
                    launched[i][1] = "make" =>
                        launched[i][3] = IntTok(Given[FirstJobs + 1])
        ELSE /\ Logged("Invalid --jobs value")
             /\ exit_status = 1
             /\ executed = <<>>

\* Helpers of C11: the run is a build whose execute() was entered; both
\* tools exited 0 and the executable is there
InBuild == prog = "llm-repl" /\ executed = <<"build">>
BuiltOk ==
    /\ Len(returncodes) = 2 /\ returncodes[1] = 0 /\ returncodes[2] = 0
    /\ exe_exists
BuildOrder ==
    /\ Exists(build_dir)
    /\ Len(launched) <= 2
    /\ Len(launched) >= 1 => launched[1][1] = "cmake"
    /\ Len(launched) = 2 =>
          /\ launched[2][1] = "make"
          /\ Len(returncodes) >= 1 /\ returncodes[1] = 0

\* C11 (as claimed): BuildCommand.execute creates the build directory if it
\* is missing, runs cmake and then make, make only after cmake exited 0; it
\* returns True iff cmake and make exited 0 and the executable exists
\* afterwards, and returns False in every other case.
BuildReturnsTrueOrFalse ==
    InBuild =>
        /\ BuildOrder
        /\ pc = "done" =>
              /\ success = Some(TRUE) <=> BuiltOk
              /\ ~BuiltOk => success = Some(FALSE)

\* C11 (amended): as above, but False is returned in every other case in
\* which execute() returns at all: when cmake or make cannot be started or
\* the run is interrupted, the exception leaves execute() without a return
\* value and main exits with status 1.
BuildReturn ==
    InBuild =>
        /\ BuildOrder
        /\ pc = "done" =>
              /\ success = Some(TRUE) <=> BuiltOk
              /\ IF Logged("Script execution failed")
                    \/ Logged("Operation interrupted by user")
                 THEN success = None /\ exit_status = 1
                 ELSE ~BuiltOk => success = Some(FALSE)

\* C11 witness: cmake and make exited 0 and no executable was produced
BuildReturnWitness ==
    /\ InBuild /\ pc = "done" /\ returncodes = <<0, 0>>
    /\ ~exe_exists /\ success = Some(FALSE)
    /\ ~build_dir.old

\* C11 witness: a build that returned True
BuildSucceededWitness ==
    /\ InBuild /\ pc = "done" /\ success = Some(TRUE) /\ exit_status = 0

\* C12: llm-repl.py run exits with status 0 whenever the application was
\* started and ended, whatever its exit code (a non-zero code only adds a
\* warning line), and also when the user interrupted it; so the command
\* lines of validate.py's version and help steps end with a status that
\* validate.py counts as passed, for every exit code of the application.
RunAlwaysSucceeds ==
    (prog = "llm-repl" /\ ~IsHelp /\ command = "run" /\ pc = "done") =>
        /\ (returncodes # <<>> \/ Logged("Application interrupted by user")) =>
              /\ exit_status = 0
              /\ success = Some(TRUE)
              /\ launched = <<<<ExePath>> \o
                    (IF AfterSeparator = <<>> THEN <<"--help">>
                     ELSE AfterSeparator)>>
        /\ (returncodes # <<>> /\ returncodes[1] # 0) =>
              log = <<"Application exited with code">>
        /\ \A i \in {6, 7} :
              (sys_argv = StepArgv(i) /\ returncodes # <<>>) =>
                  /\ StepPasses(exit_status)
                  /\ launched[1][2] = validation_steps[i].command[5]

\* C12 witness: the version step's command line, the application exited 2
RunAlwaysSucceedsWitness ==
    /\ prog = "llm-repl" /\ pc = "done"
    /\ sys_argv = <<"run", "--", "--version">>
    /\ returncodes = <<2>> /\ exit_status = 0

\* C12 witness: the application was interrupted and the status is 0
RunInterruptedStatusWitness ==
    /\ prog = "llm-repl" /\ pc = "done"
    /\ sys_argv = <<"run", "--", "--help">>
    /\ log = <<"Application interrupted by user">> /\ exit_status = 0

====
